---- MODULE Spec2Model ----
(***************************************************************************)
(* Model of the werewolf viewer front end, src/viewer/app.js lines 1-335   *)
(* (the version with the typing indicator): the polling loop, the refresh  *)
(* cycle update(), the differential scene loader loadScenes() and the      *)
(* typing indicator.  The older copy of the viewer that follows it in the  *)
(* same file (lines 337-623) is not part of the model.                     *)
(*                                                                         *)
(* JavaScript runs one task at a time and drains the whole microtask       *)
(* queue before the next task.  One action of the model is therefore one   *)
(* task: a timer firing or a fetch settling, together with every promise   *)
(* callback that runs as a consequence before the next task starts.        *)
(***************************************************************************)
EXTENDS Integers, Sequences, FiniteSets, TLC

\* ------------------------------------------------------------- bounds
MaxEngineSteps == 1     \* changes the game engine makes after the viewer started
MaxList == 3            \* length of the scene lists tried on the fetch-set rule
MaxContent == 5         \* length of the scene contents parsed
MaxName == 4            \* length of the speaker names rendered

\* ---------------------------------------------------------- constants
POLL_INTERVAL_NORMAL == 3000
POLL_INTERVAL_TYPING == 1000

Null == "null"          \* null / undefined / absent scene name
NoNpc == <<>>           \* null / absent / empty npc name (all falsy)
SceneOrder == <<"s1", "s2">>               \* the engine's scenes, in creation order
FsNames == {"s1", "s2", "s3", "s4"}        \* names tried on the fetch-set rule
\* npc names are strings, modelled as sequences of characters
NpcNames == {<<"B", "o", "b">>}
Cycles == {"init", "poll"}   \* the update() started by init() and the one started by poll()

VARIABLES
    \* the game engine behind the HTTP endpoints
    engHash,        \* /api/hash: the engine's state version
    engScenes,      \* /api/scenes: the scene names, in order
    engContent,     \* /api/scene/{name}: number of lines written to each scene
    engTyping,      \* /api/typing: the typing payload
    \* the viewer
    pc,             \* "boot": init()'s characters fetch is in flight; "running" after
    lastHash,
    loadedScenes,
    sceneDivs,      \* the scene names that have a div
    scenes,         \* children of $scenes, in document order
    isTyping,
    disconnected,   \* $liveIndicator has class "disconnected"
    timers,         \* the pending setTimeout(poll, delay) timers: their delays
    pollPc,         \* "idle" | "hash" (hash fetch in flight) | "update" (awaiting update())
    cyc,            \* the refresh cycle of each update() call
    last,           \* the task that ran last: the timer or the response delivered
    \* inputs and output of the fetch-set rule on its own
    fsList, fsActive, fsLoaded, fsOut,
    \* a scene content and its blocks; a speaker name and what is rendered for it
    psText, psOut, rnName, rnOut

engVars == <<engHash, engScenes, engContent, engTyping>>
domVars == <<loadedScenes, sceneDivs, scenes, isTyping>>
pollVars == <<timers, pollPc, disconnected, lastHash>>
fsVars == <<fsList, fsActive, fsLoaded, fsOut>>
txVars == <<psText, psOut, rnName, rnOut>>
vars == <<engHash, engScenes, engContent, engTyping, pc, lastHash, loadedScenes,
          sceneDivs, scenes, isTyping, disconnected, timers, pollPc, cyc, last,
          fsList, fsActive, fsLoaded, fsOut, psText, psOut, rnName, rnOut>>

\* ------------------------------------------------------------ helpers
Range(s) == {s[i] : i \in 1..Len(s)}
NoDup(s) == \A i, j \in 1..Len(s) : s[i] = s[j] => i = j
IndexOf(s, x) == IF \E i \in 1..Len(s) : s[i] = x
                 THEN CHOOSE i \in 1..Len(s) : s[i] = x /\ \A j \in 1..(i - 1) : s[j] # x
                 ELSE 0
RemoveAt(s, i) == SubSeq(s, 1, i - 1) \o SubSeq(s, i + 1, Len(s))

\* a fetch: pending, or settled with a body, or failed
Pending(b) == [status |-> "pending", body |-> b]
Ok(b) == [status |-> "ok", body |-> b]
Fail(b) == [status |-> "fail", body |-> b]

NoPayload == [present |-> FALSE, npc |-> NoNpc, scene |-> Null]
Typing(n, s) == [present |-> TRUE, npc |-> n, scene |-> s]

\* ---------------------------------------------------- pure functions
\* The full-width parentheses U+FF08 and U+FF09 of the annotation.
OpenParen == "("
CloseParen == ")"

\* name.replace(/<open>[^<close>]*<close>$/, ""): drop a trailing full-width
\* parenthetical.  The match starts at the leftmost open parenthesis that is
\* followed only by characters other than the closing one, and then by a
\* closing parenthesis that ends the string.
AnnotStart(name) ==
    LET n == Len(name)
        starts == {i \in 1..n : /\ name[i] = OpenParen
                                /\ i < n
                                /\ name[n] = CloseParen
                                /\ \A j \in (i + 1)..(n - 1) : name[j] # CloseParen}
    IN IF starts = {} THEN 0 ELSE CHOOSE i \in starts : \A j \in starts : i <= j

baseName(name) ==
    IF AnnotStart(name) = 0 THEN name ELSE SubSeq(name, 1, AnnotStart(name) - 1)

\* elements of $scenes
SceneDiv(name, html) == [tag |-> "scene", scene |-> name, npc |-> NoNpc, html |-> html]
Indicator(npc) == [tag |-> "typing", scene |-> Null, npc |-> npc, html |-> 0]

\* document.getElementById("typing-indicator"): index of the first one, 0 if none
existingIndicator(d) ==
    IF \E i \in 1..Len(d) : d[i].tag = "typing"
    THEN CHOOSE i \in 1..Len(d) : d[i].tag = "typing" /\ \A j \in 1..(i - 1) : d[j].tag # "typing"
    ELSE 0

\* a mutant: the indicator is created on every update instead of being reused
renderTypingIndicator_AlwaysCreate(d, typingData) ==
    IF ~typingData.present \/ typingData.npc = NoNpc
    THEN IF existingIndicator(d) # 0 THEN RemoveAt(d, existingIndicator(d)) ELSE d
    ELSE Append(d, Indicator(baseName(typingData.npc)))

\* renderTypingIndicator(typingData): the children of $scenes afterwards
renderTypingIndicator(d, typingData) ==
    LET existing == existingIndicator(d)
    IN IF ~typingData.present \/ typingData.npc = NoNpc
       THEN IF existing # 0 THEN RemoveAt(d, existing) ELSE d
       ELSE \* appendChild moves an element that is already in the document
            Append(IF existing # 0 THEN RemoveAt(d, existing) ELSE d,
                   Indicator(baseName(typingData.npc)))

\* loadScenes, lines 238-245: the names to request, in request order
newScenes(sceneList, loaded) == SelectSeq(sceneList, LAMBDA name : name \notin loaded)

toRefresh(activeScene, loaded) ==
    IF activeScene # Null /\ activeScene \in loaded THEN <<activeScene>> ELSE <<>>

\* a mutant: every listed scene is requested again
toFetch_NoFilter(sceneList, activeScene, loaded) == sceneList

\* a mutant: the active scene is refreshed without looking at the cache
toFetch_ActiveAlways(sceneList, activeScene, loaded) ==
    IF activeScene # Null /\ activeScene \notin Range(newScenes(sceneList, loaded))
    THEN Append(newScenes(sceneList, loaded), activeScene)
    ELSE newScenes(sceneList, loaded)

toFetch(sceneList, activeScene, loaded) ==
    LET new == newScenes(sceneList, loaded)
        ref == toRefresh(activeScene, loaded)
    IN IF ref # <<>> /\ IndexOf(new, ref[1]) = 0 THEN Append(new, ref[1]) ELSE new

\* the DOM and cache state loadScenes works on
View(d, divs, loaded) == [scenes |-> d, sceneDivs |-> divs, loadedScenes |-> loaded]

ReplaceHtml(d, name, html) ==
    [i \in 1..Len(d) |-> IF d[i].tag = "scene" /\ d[i].scene = name
                         THEN SceneDiv(name, html) ELSE d[i]]

\* a mutant: a scene that gets its div is not recorded as loaded
applyScene_NotRecorded(v, scene) ==
    IF scene.name \in v.sceneDivs
    THEN View(ReplaceHtml(v.scenes, scene.name, scene.content),
              v.sceneDivs, v.loadedScenes \cup {scene.name})
    ELSE View(Append(v.scenes, SceneDiv(scene.name, scene.content)),
              v.sceneDivs \cup {scene.name}, v.loadedScenes)

\* a mutant: an existing div is moved to the end when it is refreshed
applyScene_MoveToEnd(v, scene) ==
    View(Append(SelectSeq(v.scenes, LAMBDA e : ~(e.tag = "scene" /\ e.scene = scene.name)),
                SceneDiv(scene.name, scene.content)),
         v.sceneDivs \cup {scene.name}, v.loadedScenes \cup {scene.name})

\* loadScenes, lines 256-272: one fetched scene applied.  The html written
\* is a function of the content alone; it is kept as the content it renders.
applyScene(v, scene) ==
    IF scene.name \in v.sceneDivs
    THEN View(ReplaceHtml(v.scenes, scene.name, scene.content),
              v.sceneDivs, v.loadedScenes \cup {scene.name})
    ELSE View(Append(v.scenes, SceneDiv(scene.name, scene.content)),
              v.sceneDivs \cup {scene.name}, v.loadedScenes \cup {scene.name})

\* results.forEach(...), in the order of toFetch
RECURSIVE applyResults(_, _)
applyResults(v, results) ==
    IF results = <<>> THEN v
    ELSE applyResults(applyScene(v, Head(results)), Tail(results))

\* ---------------------------------------------------- scene parsing
\* Text is a sequence of characters.  The markers of the narrative format
\* have stand-ins: U+300C and U+300D (the corner brackets of speech) and
\* U+2015 (the horizontal bar of separators).
OpenQuote == "["
CloseQuote == "]"
Dash == "-"
Newline == "\n"
CarriageReturn == "\r"

\* \s of the regular expressions and the characters String.prototype.trim
\* removes, among the characters of the model
IsSpace(ch) == ch \in {" ", Newline, CarriageReturn}

\* the characters "." does not match
IsLineTerminator(ch) == ch \in {Newline, CarriageReturn}

\* text.split("\n"), line 143
RECURSIVE split(_)
split(text) ==
    IF \A i \in 1..Len(text) : text[i] # Newline
    THEN <<text>>
    ELSE LET i == CHOOSE k \in 1..Len(text) :
                      text[k] = Newline /\ \A j \in 1..(k - 1) : text[j] # Newline
         IN <<SubSeq(text, 1, i - 1)>> \o split(SubSeq(text, i + 1, Len(text)))

\* line.trim() === "", line 148
isBlank(line) == \A i \in 1..Len(line) : IsSpace(line[i])

\* line.match(/^(\S+?)<open>(.+)$/), line 151: the index of the opening
\* marker the match splits at, 0 without a match.  The lazy group takes the
\* shortest run of non-space characters that an opening marker follows; the
\* rest must be non-empty and reach the end of the line without a line
\* terminator.
speechMatch(line) ==
    LET at == {i \in 2..(Len(line) - 1) :
                  /\ line[i] = OpenQuote
                  /\ \A j \in 1..(i - 1) : ~IsSpace(line[j])
                  /\ \A j \in (i + 1)..Len(line) : ~IsLineTerminator(line[j])}
    IN IF at = {} THEN 0 ELSE CHOOSE i \in at : \A j \in at : i <= j

Block(type, name, text) == [type |-> type, name |-> name, text |-> text]

\* content.endsWith(<close>) ? content.slice(0, -1) : content, lines 155-157
stripClose(content) ==
    IF content # <<>> /\ content[Len(content)] = CloseQuote
    THEN SubSeq(content, 1, Len(content) - 1)
    ELSE content

\* line.startsWith(<dash><dash>), line 163
isSeparator(line) == Len(line) >= 2 /\ line[1] = Dash /\ line[2] = Dash

\* the body of the loop of parseScene for a line that is not blank,
\* lines 150-169
parseLine(line) ==
    LET m == speechMatch(line)
    IN IF m # 0
       THEN Block("speech", SubSeq(line, 1, m - 1), stripClose(SubSeq(line, m + 1, Len(line))))
       ELSE IF isSeparator(line) THEN Block("separator", <<>>, line)
       ELSE Block("narration", <<>>, line)

\* a mutant: blank lines are not skipped
parseScene_KeepBlank(text) == [i \in 1..Len(split(text)) |-> parseLine(split(text)[i])]

\* parseScene(text), lines 142-173
parseScene(text) ==
    LET lines == SelectSeq(split(text), LAMBDA line : ~isBlank(line))
    IN [i \in 1..Len(lines) |-> parseLine(lines[i])]

\* ---------------------------------------------------- scene rendering
\* One rendered line of a scene: its class, the names given to avatarHtml,
\* to nameToColor and to the charDescriptions lookup, the name shown in
\* div.speech-name and the text shown.  esc() only encodes the characters
\* for the HTML parser: what is shown is the string itself.
Line(class, avatar, color, title, shown, text) ==
    [class |-> class, avatar |-> avatar, color |-> color, title |-> title,
     shown |-> shown, text |-> text]

\* a mutant: every use of the speaker name takes the name as parsed
renderBlock_ParsedName(b) ==
    IF b.type = "speech"
    THEN Line("line-speech", b.name, b.name, b.name, b.name, b.text)
    ELSE IF b.type = "separator"
    THEN Line("line-separator", <<>>, <<>>, <<>>, <<>>, b.text)
    ELSE Line("line-narration", <<>>, <<>>, <<>>, <<>>, b.text)

\* a mutant: the lookups take the base name, the name shown is the parsed one
renderBlock_ShowsParsed(b) ==
    IF b.type = "speech"
    THEN Line("line-speech", baseName(b.name), baseName(b.name), baseName(b.name),
              b.name, b.text)
    ELSE IF b.type = "separator"
    THEN Line("line-separator", <<>>, <<>>, <<>>, <<>>, b.text)
    ELSE Line("line-narration", <<>>, <<>>, <<>>, <<>>, b.text)

\* the body of the loop of renderSceneBlocks, lines 183-201
renderBlock(b) ==
    IF b.type = "speech"
    THEN LET base == baseName(b.name)                        \* line 186
         IN Line("line-speech",
                 base,                                       \* avatarHtml(baseName), line 191
                 base,                                       \* nameToColor(baseName), line 187
                 base,                                       \* charDescriptions[baseName], line 188
                 base,                                       \* esc(baseName), line 192
                 b.text)
    ELSE IF b.type = "separator"
    THEN Line("line-separator", <<>>, <<>>, <<>>, <<>>, b.text)
    ELSE Line("line-narration", <<>>, <<>>, <<>>, <<>>, b.text)

\* renderSceneBlocks(blocks), lines 180-203
renderSceneBlocks(blocks) == [i \in 1..Len(blocks) |-> renderBlock(blocks[i])]

\* ------------------------------------------------------- the engine
\* The engine is reached only through the HTTP endpoints.  A game may be
\* under way when the viewer starts.
EngineNames == Range(SceneOrder)
Prefix(n) == SubSeq(SceneOrder, 1, n)
PayloadsOver(names) ==
    {NoPayload} \cup {Typing(n, s) : n \in NpcNames, s \in names}

EngineInit ==
    /\ engHash = 0
    /\ engScenes \in {Prefix(n) : n \in 0..Len(SceneOrder)}
    /\ engContent = [s \in EngineNames |-> IF s \in Range(engScenes) THEN 1 ELSE 0]
    /\ engTyping \in PayloadsOver(Range(engScenes))

\* a new scene is opened
EngineAddScene ==
    /\ engHash < MaxEngineSteps
    /\ Len(engScenes) < Len(SceneOrder)
    /\ engHash' = engHash + 1
    /\ engScenes' = Append(engScenes, SceneOrder[Len(engScenes) + 1])
    /\ engContent' = [engContent EXCEPT ![SceneOrder[Len(engScenes) + 1]] = 1]
    /\ UNCHANGED engTyping

\* the generator appends a line to the scene it is writing (scenes are
\* append-only)
EngineAppend(s) ==
    /\ engHash < MaxEngineSteps
    /\ s \in Range(engScenes)
    /\ engTyping.present /\ engTyping.scene = s
    /\ engHash' = engHash + 1
    /\ engContent' = [engContent EXCEPT ![s] = @ + 1]
    /\ UNCHANGED <<engScenes, engTyping>>

\* the generator starts or stops writing
EngineSetTyping(p) ==
    /\ engHash < MaxEngineSteps
    /\ p # engTyping
    /\ engHash' = engHash + 1
    /\ engTyping' = p
    /\ UNCHANGED <<engScenes, engContent>>

\* ---------------------------------------------------- refresh cycles
\* update(): the three fetches st (state), sc (scenes), ty (typing) while
\* they are awaited; then the typing payload, the names loadScenes requested
\* and their responses.  Nothing of a cycle is used once it has settled: it
\* is idle again.
IdleCycle ==
    [stage |-> "idle", st |-> Pending(-1), sc |-> Pending(<<>>), ty |-> Pending(NoPayload),
     typingData |-> NoPayload, toFetch |-> <<>>, res |-> <<>>]

\* update(), lines 306-309: the three requests are issued
StartedCycle == [IdleCycle EXCEPT !.stage = "fetch"]

InFlight(c) == cyc[c].stage \in {"fetch", "load"}

\* What the handlers of the last task did; a response that only settles one
\* member of a Promise.all that stays pending runs none (Quiet).
\*   op, c, ok   the timer ("poll"), or the response delivered and its cycle;
\*               "update" when it was the last of the three of update()
\*   hash        the body of a hash response
\*   started     update() was called: state, scenes and typing were requested
\*   then        the callback of update() ran: the typing flag was set and
\*               renderSidebar ran
\*   list        the scene list it gave to loadScenes
\*   tyFailed    the typing fetch of the cycle had failed
\*   typingData  the typing payload of the cycle
\*   requested   the scenes loadScenes requested
\*   applied     the fetched scenes loadScenes applied
\*   created     the scenes it created a div for
\*   indicator   renderTypingIndicator ran
\*   existing    it found an indicator in the document
\*   settled     how the promise of update() settled, if it did
Task(op, c, ok) ==
    [op |-> op, c |-> c, ok |-> ok, hash |-> -1, started |-> FALSE, then |-> FALSE,
     list |-> <<>>, tyFailed |-> FALSE, typingData |-> NoPayload, requested |-> <<>>,
     applied |-> <<>>, created |-> <<>>, indicator |-> FALSE, existing |-> FALSE,
     settled |-> "no"]

Quiet == Task("none", "none", TRUE)

\* line 309: .catch(function () { return null; })
typingResult(r) == IF r.status = "fail" THEN NoPayload ELSE r.body

\* a mutant: the typing fetch has no catch of its own
updateRejects_TypingToo(k) ==
    k.st.status = "fail" \/ k.sc.status = "fail" \/ k.ty.status = "fail"

\* Promise.all of lines 306-310 rejects as soon as one member rejects
updateRejects(k) == k.st.status = "fail" \/ k.sc.status = "fail"

updateFulfilled(k) ==
    k.st.status = "ok" /\ k.sc.status = "ok" /\ k.ty.status # "pending"

\* line 312
typingFlag(typingData) == typingData.present /\ typingData.npc # NoNpc

\* a mutant: the indicator is rendered before the scenes are applied
syncThenIndicator_IndicatorFirst(v, results, typingData) ==
    applyResults([v EXCEPT !.scenes = renderTypingIndicator(v.scenes, typingData)], results)

\* lines 255-273 then 317-319: the fetched scenes are applied, and then the
\* typing indicator is rendered
syncThenIndicator(v, results, typingData) ==
    LET w == applyResults(v, results)
    IN [w EXCEPT !.scenes = renderTypingIndicator(w.scenes, typingData)]

\* a mutant: the interval is fixed
pollInterval_Fixed(typing) == POLL_INTERVAL_NORMAL

\* line 301
pollInterval(typing) == IF typing THEN POLL_INTERVAL_TYPING ELSE POLL_INTERVAL_NORMAL

\* a mutant: the next poll is scheduled from the success path only
nextTimers_NotAfterFailure(pending, rejected, typing) ==
    IF rejected THEN pending ELSE Append(pending, pollInterval(typing))

\* lines 299-302: .finally(function () { setTimeout(poll, ...) })
nextTimers(pending, rejected, typing) == Append(pending, pollInterval(typing))

\* a mutant: every successful poll refreshes
hashChanged_Always(hash, lastSeen) == TRUE

\* line 291
hashChanged(hash, lastSeen) == hash # lastSeen

CurrentView == View(scenes, sceneDivs, loadedScenes)

\* a mutant: the catch handler of poll does not mark the viewer disconnected
PollSettles_NeverMarks(rejected, disc) ==
    /\ disconnected' = disc
    /\ timers' = nextTimers(timers, rejected, isTyping')
    /\ pollPc' = "idle"

\* poll(), lines 296-302: the chain settles; the catch handler runs when the
\* hash fetch or update() rejected, and the finally handler always
PollSettles(rejected, disc) ==
    /\ disconnected' = IF rejected THEN TRUE ELSE disc
    /\ timers' = nextTimers(timers, rejected, isTyping')
    /\ pollPc' = "idle"

\* The promise update() returned settles: poll()'s chain goes on; init()
\* swallows a rejection (line 329).
UpdateSettles(c, rejected) ==
    IF c = "poll"
    THEN PollSettles(rejected, disconnected)
    ELSE UNCHANGED <<disconnected, timers, pollPc>>

SetView(v) ==
    /\ scenes' = v.scenes
    /\ sceneDivs' = v.sceneDivs
    /\ loadedScenes' = v.loadedScenes

\* ------------------------------------------------------- the viewer
FsIdle ==
    /\ fsList = <<>>
    /\ fsActive = Null
    /\ fsLoaded = {}
    /\ fsOut = [done |-> FALSE, names |-> <<>>]

TxIdle ==
    /\ psText = <<>>
    /\ psOut = [done |-> FALSE, blocks |-> <<>>]
    /\ rnName = <<>>
    /\ rnOut = [done |-> FALSE, html |-> <<>>, indicator |-> <<>>]

ViewerInit ==
    /\ pc = "boot"
    /\ lastHash = -1            \* null
    /\ loadedScenes = {}
    /\ sceneDivs = {}
    /\ scenes = <<>>
    /\ isTyping = FALSE
    /\ disconnected = FALSE
    /\ timers = <<>>
    /\ pollPc = "idle"
    /\ cyc = [c \in Cycles |-> IdleCycle]
    /\ last = Task("boot", "none", TRUE)

\* the state once the script has run: init() has issued /api/characters
Init == EngineInit /\ ViewerInit /\ FsIdle /\ TxIdle

\* init(), lines 325-331: the characters fetch settles; the first update()
\* is started and the first poll timer is set, in the same handler.  The
\* description map it may have stored only feeds title attributes.
init(ok) ==
    /\ pc = "boot"
    /\ pc' = "running"
    /\ cyc' = [cyc EXCEPT !["init"] = StartedCycle]
    /\ timers' = Append(timers, POLL_INTERVAL_NORMAL)
    /\ last' = [Task("init", "init", ok) EXCEPT !.started = TRUE]
    /\ UNCHANGED <<engVars, domVars, fsVars, txVars, lastHash, disconnected, pollPc>>

\* the timer fires: poll(), line 288, issues the hash fetch
poll ==
    /\ timers # <<>>
    /\ pollPc = "idle"
    /\ timers' = Tail(timers)
    /\ pollPc' = "hash"
    /\ last' = Task("poll", "none", TRUE)
    /\ UNCHANGED <<engVars, domVars, fsVars, txVars, pc, lastHash, disconnected, cyc>>

\* poll(), lines 289-302: the hash fetch settles
pollHashSettles(ok) ==
    /\ pollPc = "hash"
    /\ UNCHANGED <<engVars, domVars, fsVars, txVars, pc>>
    /\ IF ok /\ hashChanged(engHash, lastHash)
       THEN /\ disconnected' = FALSE
            /\ lastHash' = engHash
            /\ cyc' = [cyc EXCEPT !["poll"] = StartedCycle]
            /\ pollPc' = "update"
            /\ last' = [Task("hash", "poll", ok) EXCEPT !.hash = engHash, !.started = TRUE]
            /\ UNCHANGED timers
       ELSE /\ PollSettles(~ok, FALSE)
            /\ last' = [Task("hash", "poll", ok) EXCEPT !.hash = IF ok THEN engHash ELSE -1]
            /\ UNCHANGED <<lastHash, cyc>>

\* update(), lines 310-320, once the three fetches are fulfilled: the
\* callback, and loadScenes up to its requests (lines 236-253)
updateThen(c, k, task) ==
    LET typingData == typingResult(k.ty)
        typing == typingFlag(typingData)
        activeScene == IF typing THEN typingData.scene ELSE Null
        names == toFetch(k.sc.body, activeScene, loadedScenes)
        t2 == [task EXCEPT !.then = TRUE, !.list = k.sc.body,
                           !.tyFailed = (k.ty.status = "fail"),
                           !.typingData = typingData, !.requested = names]
    IN /\ isTyping' = typing
       /\ IF names = <<>>
          THEN \* loadScenes returns a resolved promise: the indicator is next
               /\ cyc' = [cyc EXCEPT ![c] = IdleCycle]
               /\ SetView(syncThenIndicator(CurrentView, <<>>, typingData))
               /\ UpdateSettles(c, FALSE)
               /\ last' = [t2 EXCEPT !.indicator = TRUE,
                                     !.existing = (existingIndicator(scenes) # 0),
                                     !.settled = "resolved"]
          ELSE /\ cyc' = [cyc EXCEPT ![c] =
                             [IdleCycle EXCEPT !.stage = "load", !.typingData = typingData,
                                 !.toFetch = names,
                                 !.res = [i \in 1..Len(names) |-> Pending(0)]]]
               /\ last' = t2
               /\ UNCHANGED <<scenes, sceneDivs, loadedScenes, disconnected, timers, pollPc>>

\* one of the three fetches of update() settles
updateFetchSettles(c, which, ok) ==
    /\ cyc[c].stage = "fetch"
    /\ cyc[c][which].status = "pending"
    /\ UNCHANGED <<engVars, fsVars, txVars, pc, lastHash>>
    /\ LET body == CASE which = "st" -> engHash
                     [] which = "sc" -> engScenes
                     [] which = "ty" -> engTyping
           k == [cyc[c] EXCEPT ![which] = IF ok THEN Ok(body) ELSE Fail(@.body)]
       IN IF updateRejects(k)
          THEN \* update() rejects; its callback never runs
               /\ cyc' = [cyc EXCEPT ![c] = IdleCycle]
               /\ UNCHANGED domVars
               /\ UpdateSettles(c, TRUE)
               /\ last' = [Task(which, c, ok) EXCEPT !.settled = "rejected"]
          ELSE IF updateFulfilled(k)
          THEN updateThen(c, k, Task("update", c, TRUE))
          ELSE /\ cyc' = [cyc EXCEPT ![c] = k]
               /\ last' = Quiet
               /\ UNCHANGED <<domVars, disconnected, timers, pollPc>>

\* loadScenes, lines 249-276: one scene fetch settles
sceneFetchSettles(c, i, ok) ==
    /\ cyc[c].stage = "load"
    /\ i \in 1..Len(cyc[c].toFetch)
    /\ cyc[c].res[i].status = "pending"
    /\ ok => cyc[c].toFetch[i] \in Range(engScenes)
    /\ UNCHANGED <<engVars, fsVars, txVars, pc, lastHash, isTyping>>
    /\ LET k == [cyc[c] EXCEPT !.res[i] = IF ok THEN Ok(engContent[cyc[c].toFetch[i]])
                                                ELSE Fail(0)]
           results == [j \in 1..Len(k.toFetch) |->
                          [name |-> k.toFetch[j], content |-> k.res[j].body]]
           task == [Task("scene", c, ok) EXCEPT !.typingData = k.typingData]
       IN IF ~ok
          THEN \* Promise.all rejects, the catch of line 274 swallows it and
               \* nothing is applied; update() goes on to the indicator
               /\ cyc' = [cyc EXCEPT ![c] = IdleCycle]
               /\ SetView(syncThenIndicator(CurrentView, <<>>, k.typingData))
               /\ UpdateSettles(c, FALSE)
               /\ last' = [task EXCEPT !.indicator = TRUE,
                                       !.existing = (existingIndicator(scenes) # 0),
                                       !.settled = "resolved"]
          ELSE IF \A j \in 1..Len(k.res) : k.res[j].status = "ok"
          THEN /\ cyc' = [cyc EXCEPT ![c] = IdleCycle]
               /\ SetView(syncThenIndicator(CurrentView, results, k.typingData))
               /\ UpdateSettles(c, FALSE)
               /\ last' = [task EXCEPT !.applied = results,
                                       !.created = newScenes(k.toFetch, sceneDivs),
                                       !.indicator = TRUE,
                                       !.existing = (existingIndicator(scenes) # 0),
                                       !.settled = "resolved"]
          ELSE /\ cyc' = [cyc EXCEPT ![c] = k]
               /\ last' = Quiet
               /\ UNCHANGED <<scenes, sceneDivs, loadedScenes, disconnected, timers, pollPc>>

Engine ==
    /\ \/ EngineAddScene
       \/ \E s \in EngineNames : EngineAppend(s)
       \/ \E p \in PayloadsOver(Range(engScenes)) : EngineSetTyping(p)
    /\ UNCHANGED <<domVars, pollVars, fsVars, txVars, pc, cyc, last>>

Next ==
    \/ Engine
    \/ \E ok \in BOOLEAN : init(ok)
    \/ poll
    \/ \E ok \in BOOLEAN : pollHashSettles(ok)
    \/ \E c \in Cycles, which \in {"st", "sc", "ty"}, ok \in BOOLEAN : updateFetchSettles(c, which, ok)
    \/ \E c \in Cycles, i \in 1..Len(SceneOrder), ok \in BOOLEAN : sceneFetchSettles(c, i, ok)

Spec == Init /\ [][Next]_vars

\* The viewer opened on a game whose first scene is being written.
FairInit == Init /\ engScenes = Prefix(1) /\ engTyping.present

\* Every request settles (the transport resolves or rejects each fetch, lines
\* 68-73), and a pending timer fires.
FairSpec ==
    /\ FairInit
    /\ [][Next]_vars
    /\ WF_vars(\E ok \in BOOLEAN : init(ok))
    /\ WF_vars(poll)
    /\ WF_vars(\E ok \in BOOLEAN : pollHashSettles(ok))
    /\ \A c \in Cycles : \A which \in {"st", "sc", "ty"} :
          WF_vars(\E ok \in BOOLEAN : updateFetchSettles(c, which, ok))
    /\ \A c \in Cycles : \A i \in 1..Len(SceneOrder) :
          WF_vars(\E ok \in BOOLEAN : sceneFetchSettles(c, i, ok))

\* ------------------------------------------- the fetch-set rule alone
DupFreeLists(names, n) ==
    {s \in UNION {[1..m -> names] : m \in 0..n} : NoDup(s)}

\* every scene list, active scene and loaded set over FsNames
FsInit ==
    /\ engHash = 0
    /\ engScenes = <<>>
    /\ engContent = [s \in EngineNames |-> 0]
    /\ engTyping = NoPayload
    /\ ViewerInit
    /\ fsList \in DupFreeLists(FsNames, MaxList)
    /\ fsActive \in FsNames \cup {Null}
    /\ fsLoaded \in SUBSET FsNames
    /\ fsOut = [done |-> FALSE, names |-> <<>>]
    /\ TxIdle

\* loadScenes(fsList, fsActive) with loadedScenes = fsLoaded: its requests
FsLoadScenes ==
    /\ ~fsOut.done
    /\ fsOut' = [done |-> TRUE, names |-> toFetch(fsList, fsActive, fsLoaded)]
    /\ UNCHANGED <<engVars, domVars, pollVars, txVars, pc, cyc, last, fsList, fsActive, fsLoaded>>

FetchSpec == FsInit /\ [][FsLoadScenes]_vars

\* --------------------------------------------- parseScene on its own
TextChars == {"a", " ", Newline, CarriageReturn, OpenQuote, CloseQuote, Dash}
Strings(chars, n) == UNION {[1..m -> chars] : m \in 0..n}

EngineIdle ==
    /\ engHash = 0
    /\ engScenes = <<>>
    /\ engContent = [s \in EngineNames |-> 0]
    /\ engTyping = NoPayload

\* every content of at most MaxContent characters
ParseInit ==
    /\ EngineIdle /\ ViewerInit /\ FsIdle
    /\ psText \in Strings(TextChars, MaxContent)
    /\ psOut = [done |-> FALSE, blocks |-> <<>>]
    /\ rnName = <<>>
    /\ rnOut = [done |-> FALSE, html |-> <<>>, indicator |-> <<>>]

\* parseScene(psText)
ParseContent ==
    /\ ~psOut.done
    /\ psOut' = [done |-> TRUE, blocks |-> parseScene(psText)]
    /\ UNCHANGED <<engVars, domVars, pollVars, fsVars, pc, cyc, last, psText, rnName, rnOut>>

ParseSpec == ParseInit /\ [][ParseContent]_vars

\* ------------------------------------ the rendering of a speaker name
NameChars == {"A", OpenParen, CloseParen}
Alice == <<"A", "l", "i", "c", "e">>
AliceSeer == Alice \o <<OpenParen, "S", "e", "e", "r", CloseParen>>

\* every name of at most MaxName characters, and the two of the example
RenderInit ==
    /\ EngineIdle /\ ViewerInit /\ FsIdle
    /\ psText = <<>>
    /\ psOut = [done |-> FALSE, blocks |-> <<>>]
    /\ rnName \in Strings(NameChars, MaxName) \cup {Alice, AliceSeer}
    /\ rnOut = [done |-> FALSE, html |-> <<>>, indicator |-> <<>>]

\* a line in which rnName speaks is parsed and rendered, and the typing
\* indicator is rendered for rnName in an empty document
RenderName ==
    /\ ~rnOut.done
    /\ rnOut' = [done |-> TRUE,
                 html |-> renderSceneBlocks(parseScene(rnName \o <<OpenQuote, "a", CloseQuote>>)),
                 indicator |-> renderTypingIndicator(<<>>, Typing(rnName, Null))]
    /\ UNCHANGED <<engVars, domVars, pollVars, fsVars, pc, cyc, last, psText, psOut, rnName>>

RenderSpec == RenderInit /\ [][RenderName]_vars

\* ---------------------------------------------------------- claims
SceneNamesOf(d) ==
    LET divs == SelectSeq(d, LAMBDA e : e.tag = "scene")
    IN [i \in 1..Len(divs) |-> divs[i].scene]
HtmlOf(d, name) == d[CHOOSE i \in 1..Len(d) : d[i].tag = "scene" /\ d[i].scene = name].html
IndicatorCount(d) == Cardinality({i \in 1..Len(d) : d[i].tag = "typing"})
IsPrefix(s, u) == Len(s) <= Len(u) /\ SubSeq(u, 1, Len(s)) = s

\* C1: the scenes loadScenes requests are exactly the listed scenes that are
\* not loaded, plus the active scene when it is non-null and loaded, each
\* once; with {s1,s2} loaded and s1,s2,s3 listed that is {s3} without an
\* active scene and {s1,s3} with s1 active.
C1_FetchSet ==
    fsOut.done =>
        /\ Range(fsOut.names) =
              {n \in Range(fsList) : n \notin fsLoaded}
              \cup (IF fsActive # Null /\ fsActive \in fsLoaded THEN {fsActive} ELSE {})
        /\ NoDup(fsOut.names)
        /\ (fsLoaded = {"s1", "s2"} /\ fsList = <<"s1", "s2", "s3">>) =>
              /\ fsActive = Null => fsOut.names = <<"s3">>
              /\ fsActive = "s1" => Range(fsOut.names) = {"s1", "s3"}

C1_Witness ==
    /\ fsOut.done
    /\ fsLoaded = {"s1", "s2"}
    /\ fsList = <<"s1", "s2", "s3">>
    /\ fsActive = "s1"
    /\ fsOut.names = <<"s3", "s1">>

\* the task of this step ran the callback of update() for cycle c
ThenStep(c) == cyc[c].stage = "fetch" /\ cyc'[c].stage # "fetch" /\ last'.then /\ last'.c = c

\* the task of this step finished loadScenes for cycle c and rendered the indicator
IndicatorStep(c) == InFlight(c) /\ cyc'[c].stage = "idle" /\ last'.indicator /\ last'.c = c

\* C2: a scene that is recorded as loaded is requested only by a cycle whose
\* typing payload names it as the active scene; a loaded scene that is not
\* active is never requested again.
C2_NoRefetch ==
    [][\A c \in Cycles : ThenStep(c) =>
          \A n \in Range(last'.requested) :
              n \in loadedScenes =>
                  /\ last'.typingData.present
                  /\ last'.typingData.npc # NoNpc
                  /\ last'.typingData.scene = n]_vars

\* a loaded scene was requested again, as the active scene, while another
\* loaded scene was listed and left alone
C2_Witness ==
    /\ last.then
    /\ \E n \in Range(last.requested) : n \in loadedScenes /\ last.typingData.scene = n
    /\ \E n \in Range(last.list) : n \in loadedScenes /\ n \notin Range(last.requested)

\* the task of this step handled the response of the hash fetch
HashStep == pollPc = "hash" /\ pollPc' # "hash"

\* C3: a poll starts a refresh cycle exactly when its hash fetch succeeded
\* with a value other than lastHash (null at the first poll), and lastHash
\* is that value when the refresh starts; otherwise it issues no request.
C3_RefreshIffChanged ==
    [][HashStep =>
          LET differs == last'.ok /\ last'.hash # lastHash
          IN /\ (cyc'["poll"].stage = "fetch") <=> differs
             /\ differs => /\ lastHash' = last'.hash
                           /\ cyc'["poll"] = StartedCycle
                           /\ cyc'["init"] = cyc["init"]
             /\ ~differs => /\ cyc' = cyc
                            /\ lastHash' = lastHash]_vars

\* a poll found the hash it had seen and went back to waiting
C3_Witness ==
    /\ last.op = "hash"
    /\ last.ok
    /\ last.hash = lastHash
    /\ ~last.started
    /\ pollPc = "idle"
    /\ cyc["poll"].stage = "idle"

\* C4: no refresh cycle begins while another one is in flight.
C4_OneCycleAtATime == ~(InFlight("init") /\ InFlight("poll"))

\* the task of this step applied fetched scenes
ApplyStep == \E c \in Cycles : IndicatorStep(c) /\ last'.applied # <<>>

\* C5: applying a scene that has a div replaces the content of that div in
\* place; applying one that has none appends a div after all others; the
\* divs of the other scenes keep their content, and the order of the scene
\* divs is the order of first application, one div per scene.
C5_ApplyInPlace ==
    [][(scenes' # scenes \/ ApplyStep) =>
       /\ IsPrefix(SceneNamesOf(scenes), SceneNamesOf(scenes'))
       /\ NoDup(SceneNamesOf(scenes'))
       /\ Range(SceneNamesOf(scenes')) = sceneDivs'
       /\ ApplyStep =>
             /\ SceneNamesOf(scenes') = SceneNamesOf(scenes) \o last'.created
             /\ \A j \in 1..Len(last'.applied) :
                   HtmlOf(scenes', last'.applied[j].name) = last'.applied[j].content
       /\ \A n \in Range(SceneNamesOf(scenes)) :
             HtmlOf(scenes', n) # HtmlOf(scenes, n) =>
                 ApplyStep /\ \E j \in 1..Len(last'.applied) : last'.applied[j].name = n]_vars

\* a scene was replaced in place while the div of another scene follows it
C5_Witness ==
    /\ last.applied # <<>>
    /\ last.created = <<>>
    /\ \E i, j \in 1..Len(scenes) :
          /\ i < j
          /\ scenes[i].tag = "scene" /\ scenes[j].tag = "scene"
          /\ scenes[i].scene = last.applied[1].name
          /\ scenes[i].html = last.applied[1].content
          /\ scenes[i].html > 1

\* C6: after renderTypingIndicator there is exactly one indicator when the
\* payload has an npc and none when it is absent or has none; there is
\* never more than one.
C6_OneIndicator ==
    /\ IndicatorCount(scenes) <= 1
    /\ last.indicator =>
          IndicatorCount(scenes) =
              IF last.typingData.present /\ last.typingData.npc # NoNpc THEN 1 ELSE 0
    \* an update of the document as it is now, with each kind of payload
    /\ IndicatorCount(renderTypingIndicator(scenes, NoPayload)) = 0
    /\ IndicatorCount(renderTypingIndicator(scenes, Typing(NoNpc, Null))) = 0
    /\ \A n \in NpcNames, s \in EngineNames :
          IndicatorCount(renderTypingIndicator(scenes, Typing(n, s))) = 1

\* a cycle without payload removed the indicator an earlier cycle had put
C6_Witness ==
    /\ last.indicator
    /\ last.existing
    /\ ~last.typingData.present
    /\ IndicatorCount(scenes) = 0

\* C7: the indicator changes only in the task that finishes the scene
\* synchronization of a cycle, and that task leaves it, if present, as the
\* last child, after the divs it created.
C7_IndicatorLast ==
    [][/\ ((\E c \in Cycles : IndicatorStep(c)) /\ IndicatorCount(scenes') >= 1) =>
             scenes'[Len(scenes')].tag = "typing"
       /\ SelectSeq(scenes', LAMBDA e : e.tag = "typing")
             # SelectSeq(scenes, LAMBDA e : e.tag = "typing") =>
                 \E c \in Cycles : IndicatorStep(c)]_vars

\* a cycle created a div while the indicator was in the document, and the
\* indicator follows that div
C7_Witness ==
    /\ last.indicator
    /\ last.existing
    /\ last.created # <<>>
    /\ Len(scenes) >= 2
    /\ scenes[Len(scenes)].tag = "typing"
    /\ scenes[Len(scenes) - 1] = SceneDiv(last.created[Len(last.created)],
                                         HtmlOf(scenes, last.created[Len(last.created)]))

\* C8: a failed typing fetch never rejects update(): only a failed state or
\* scene-list fetch does, and otherwise the callback runs.  After a failed
\* typing fetch it runs with the payload null: the typing flag is false, no loaded scene is refreshed,
\* and the indicator update of the cycle leaves no indicator.
C8_TypingFailsOpen ==
    [][\A c \in Cycles :
          /\ (cyc[c].stage = "fetch" /\ last'.c = c /\ last'.settled = "rejected") =>
                last'.op \in {"st", "sc"} /\ ~last'.ok
          /\ (cyc[c].stage = "fetch" /\ cyc'[c].stage # "fetch" /\ last'.c = c) =>
                last'.settled = "rejected" \/ last'.then
          /\ (ThenStep(c) /\ last'.tyFailed) =>
                /\ ~isTyping'
                /\ last'.typingData = NoPayload
                /\ last'.requested = newScenes(last'.list, loadedScenes)
                /\ cyc'[c].stage = "load" => cyc'[c].typingData = NoPayload
                /\ last'.indicator => IndicatorCount(scenes') = 0
          /\ (IndicatorStep(c) /\ cyc[c].stage = "load" /\ cyc[c].typingData = NoPayload) =>
                IndicatorCount(scenes') = 0]_vars

\* the typing fetch failed, the callback ran all the same and its scene
\* requests are out
C8_Witness ==
    /\ last.then
    /\ last.tyFailed
    /\ last.requested # <<>>
    /\ cyc[last.c].stage = "load"
    /\ ~isTyping

\* pending poll timers, plus the poll that has not settled yet
PollOutstanding == Len(timers) + (IF pollPc = "idle" THEN 0 ELSE 1)

\* the chain of a poll settles in this step
PollSettleStep == pollPc # "idle" /\ pollPc' = "idle"

\* C9: there is never more than one poll timer or unsettled poll; a poll
\* that settles, however it ended, sets exactly one timer, and nothing but
\* that and init sets one; if every request settles, polls are started
\* again and again for ever.
C9_PollingNeverStops ==
    /\ [](PollOutstanding <= 1)
    /\ [][/\ PollSettleStep => timers' = Append(timers, pollInterval(isTyping'))
          /\ Len(timers') > Len(timers) => (PollSettleStep \/ pc = "boot")]_vars
    /\ []<><<poll>>_vars

\* a poll whose refresh was rejected has set the next timer
C9_Witness ==
    /\ last.settled = "rejected"
    /\ last.c = "poll"
    /\ pollPc = "idle"
    /\ timers # <<>>
    /\ disconnected

\* C10: a failed state, scene-list or scene-content fetch does not end the
\* cycle: update() is not rejected and the indicator is still updated.
C10_FailureRecovered ==
    (last.op \in {"st", "sc", "scene"} /\ ~last.ok) =>
        last.settled # "rejected" /\ (last.indicator \/ InFlight(last.c))

\* every scene the engine lists is recorded as loaded and has its div
EngineScenesShown ==
    \A n \in Range(engScenes) : n \in loadedScenes /\ n \in Range(SceneNamesOf(scenes))

\* C11: if from some point on no request fails, then from some point on
\* every scene of the engine's list is loaded and rendered, whether or not
\* the hash changes again after a refresh that failed.
C11_FailedRefreshSuperseded == <>[](last.ok) => <>[]EngineScenesShown

\* C12: a poll whose hash fetch fails marks the viewer disconnected, leaves
\* lastHash, the scene cache and the document as they were, starts no
\* refresh cycle and sets the next timer.
C12_HashFailure ==
    [][(HashStep /\ ~last'.ok) =>
          /\ disconnected'
          /\ lastHash' = lastHash
          /\ loadedScenes' = loadedScenes
          /\ sceneDivs' = sceneDivs
          /\ scenes' = scenes
          /\ cyc' = cyc
          /\ ~last'.started
          /\ pollPc' = "idle"
          /\ timers' = Append(timers, pollInterval(isTyping))]_vars

\* the hash fetch failed after a scene had been loaded: the viewer is marked
\* disconnected, keeps what it had and has its next timer
C12_Witness ==
    /\ last.op = "hash"
    /\ ~last.ok
    /\ disconnected
    /\ lastHash # -1
    /\ loadedScenes # {}
    /\ timers # <<>>
    /\ pollPc = "idle"

\* C13: when a poll whose hash fetch succeeded settles and sets the next
\* timer, the viewer is not marked disconnected, whatever failed inside the
\* refresh it started.
C13_ConnectedAfterHashOk ==
    [][(PollSettleStep /\ (pollPc = "update" \/ last'.ok)) => ~disconnected']_vars

\* C14: whenever a timer is set its delay is the short interval if the
\* typing flag is true at that moment and the long one otherwise; the flag
\* changes only when the callback of update() runs, which sets it from the
\* typing payload of that cycle.
C14_AdaptiveInterval ==
    [][/\ Len(timers') > Len(timers) =>
             timers' = Append(timers, IF isTyping' THEN POLL_INTERVAL_TYPING
                                                   ELSE POLL_INTERVAL_NORMAL)
       /\ isTyping' # isTyping => \E c \in Cycles : ThenStep(c)
       /\ \A c \in Cycles : ThenStep(c) =>
             isTyping' = (last'.typingData.present /\ last'.typingData.npc # NoNpc)]_vars

\* a poll whose refresh was rejected set the short interval: the flag it
\* read had been set by the cycle before
C14_Witness ==
    /\ last.c = "poll"
    /\ last.settled = "rejected"
    /\ isTyping
    /\ pollPc = "idle"
    /\ timers = <<POLL_INTERVAL_TYPING>>

\* the lines of a text, by where they start: a line starts at the first
\* character and after every newline, and ends before the next newline
LineStarts(text) == {i \in 1..(Len(text) + 1) : i = 1 \/ text[i - 1] = Newline}
LineEnd(text, i) ==
    CHOOSE j \in i..(Len(text) + 1) :
        /\ j = Len(text) + 1 \/ text[j] = Newline
        /\ \A k \in i..(j - 1) : text[k] # Newline
LineAt(text, i) == SubSeq(text, i, LineEnd(text, i) - 1)
NonBlankStarts(text) ==
    {i \in LineStarts(text) : \E k \in i..(LineEnd(text, i) - 1) : ~IsSpace(text[k])}

\* block b holds the characters of the line: the whole line as its text, or
\* the name, the opening marker and the text, with or without a closing
\* marker
FromLine(b, line) ==
    IF b.type = "speech"
    THEN \/ line = b.name \o <<OpenQuote>> \o b.text
         \/ line = b.name \o <<OpenQuote>> \o b.text \o <<CloseQuote>>
    ELSE line = b.text

\* C15: parseScene yields one block for each line that is not blank, in the
\* order of the lines, and none for a blank line; N blocks for N lines
\* when none is blank, and no block for the empty content.
C15_BlockPerLine ==
    psOut.done =>
        LET nb == NonBlankStarts(psText)
        IN /\ Len(psOut.blocks) = Cardinality(nb)
           /\ \A i \in nb :
                 FromLine(psOut.blocks[Cardinality({j \in nb : j <= i})], LineAt(psText, i))
           /\ nb = LineStarts(psText) => Len(psOut.blocks) = Cardinality(LineStarts(psText))
           /\ psText = <<>> => psOut.blocks = <<>>

\* two lines with a blank one between them gave two blocks
C15_Witness ==
    /\ psOut.done
    /\ psText = <<"a", Newline, " ", Newline, Dash>>
    /\ psOut.blocks = <<Block("narration", <<>>, <<"a">>), Block("narration", <<>>, <<Dash>>)>>

\* the places where a line splits into a run without whitespace, an opening
\* marker and a remainder
SpeechSplits(line) ==
    {i \in 2..(Len(line) - 1) :
        line[i] = OpenQuote /\ \A j \in 1..(i - 1) : ~IsSpace(line[j])}

\* C16: a line that splits into a run without whitespace, the opening
\* marker and a remainder is a speech block, with the run as name and the
\* remainder, less one closing marker at its end, as text; any other line
\* that begins with two bars is a separator and every remaining line a
\* narration, both with the whole line as text.
C16_Classification ==
    psOut.done =>
        LET nb == NonBlankStarts(psText)
        IN /\ Len(psOut.blocks) = Cardinality(nb)
           /\ \A i \in nb :
                 LET b == psOut.blocks[Cardinality({j \in nb : j <= i})]
                     line == LineAt(psText, i)
                 IN IF SpeechSplits(line) # {}
                    THEN /\ b.type = "speech"
                         /\ \E k \in SpeechSplits(line) :
                               LET rest == SubSeq(line, k + 1, Len(line))
                               IN /\ b.name = SubSeq(line, 1, k - 1)
                                  /\ b.text = IF rest[Len(rest)] = CloseQuote
                                              THEN SubSeq(rest, 1, Len(rest) - 1)
                                              ELSE rest
                    ELSE IF Len(line) >= 2 /\ line[1] = Dash /\ line[2] = Dash
                    THEN b = Block("separator", <<>>, line)
                    ELSE b = Block("narration", <<>>, line)

\* the name ends in a parenthetical: an opening parenthesis, characters
\* other than the closing one, and the closing parenthesis that ends it
HasAnnotation(name) ==
    /\ Len(name) >= 2
    /\ name[Len(name)] = CloseParen
    /\ \E i \in 1..(Len(name) - 1) :
          name[i] = OpenParen /\ \A j \in (i + 1)..(Len(name) - 1) : name[j] # CloseParen

\* key is name without its trailing parenthetical, or name itself if it has none
Canonical(key, name) ==
    IF HasAnnotation(name)
    THEN \E i \in 1..(Len(name) - 1) :
            /\ key = SubSeq(name, 1, i - 1)
            /\ name[i] = OpenParen
            /\ \A j \in (i + 1)..(Len(name) - 1) : name[j] # CloseParen
    ELSE key = name

\* C17: the avatar, the colour and the description of a speaker are looked
\* up under one key, in a speech block and in the typing indicator alike:
\* the name without its trailing parenthetical, so Alice for Alice(Seer),
\* and the name itself when it has none.
C17_CanonicalKeys ==
    (rnOut.done /\ rnName # <<>>) =>
        /\ Len(rnOut.html) = 1
        /\ rnOut.html[1].class = "line-speech"
        /\ Canonical(rnOut.html[1].avatar, rnName)
        /\ rnOut.html[1].color = rnOut.html[1].avatar
        /\ rnOut.html[1].title = rnOut.html[1].avatar
        /\ Len(rnOut.indicator) = 1
        /\ rnOut.indicator[1].tag = "typing"
        /\ rnOut.indicator[1].npc = rnOut.html[1].avatar
        /\ rnName = AliceSeer => rnOut.html[1].avatar = Alice

\* the line and the indicator of Alice(Seer) were rendered under Alice
C17_Witness ==
    /\ rnOut.done
    /\ rnName = AliceSeer
    /\ rnOut.html[1].avatar = Alice
    /\ rnOut.html[1].title = Alice
    /\ rnOut.indicator = <<Indicator(Alice)>>

\* C18, as stated: the name shown in a speech block is the name as parsed,
\* annotation included.
C18_ShowsParsedName ==
    (rnOut.done /\ rnName # <<>>) => rnOut.html[1].shown = rnName

\* C18, amended: the name shown in a speech block is the name without its
\* trailing parenthetical, the same string as the keys of the avatar, the
\* colour and the description; a name without one is shown as parsed.
C18_ShowsCanonicalName ==
    (rnOut.done /\ rnName # <<>>) =>
        /\ Len(rnOut.html) = 1
        /\ rnOut.html[1].class = "line-speech"
        /\ Canonical(rnOut.html[1].shown, rnName)
        /\ rnOut.html[1].shown = rnOut.html[1].avatar
        /\ ~HasAnnotation(rnName) => rnOut.html[1].shown = rnName
        /\ rnName = AliceSeer => rnOut.html[1].shown = Alice

\* the line of Alice(Seer) shows Alice
C18_Witness ==
    /\ rnOut.done
    /\ rnName = AliceSeer
    /\ rnOut.html[1].class = "line-speech"
    /\ rnOut.html[1].shown = Alice

\* the task of this step delivered the failed response of a scene fetch
SceneFailureStep ==
    \E c \in Cycles :
        cyc[c].stage = "load" /\ cyc'[c].stage = "idle" /\ last'.op = "scene" /\ ~last'.ok

\* C19: the scenes recorded as loaded are always exactly the scenes that
\* have a div, no step removes one, and the step that delivers a failed
\* scene fetch leaves the set as it was.
C19_LoadedIsRendered ==
    /\ [](loadedScenes = sceneDivs /\ sceneDivs = Range(SceneNamesOf(scenes)))
    /\ [][/\ loadedScenes \subseteq loadedScenes'
          /\ SceneFailureStep => loadedScenes' = loadedScenes /\ sceneDivs' = sceneDivs]_vars

\* a scene fetch failed while one scene was loaded and another, listed by
\* the engine, was not
C19_Witness ==
    /\ last.op = "scene"
    /\ ~last.ok
    /\ loadedScenes # {}
    /\ \E n \in Range(engScenes) : n \notin loadedScenes

\* C20: whenever no refresh cycle is in flight, the typing flag is true
\* exactly when the typing indicator is in the document.
C20_FlagMatchesIndicator ==
    (~InFlight("init") /\ ~InFlight("poll")) => (isTyping <=> IndicatorCount(scenes) = 1)

\* C21: the engine only appends to a scene, so a longer content is a more
\* recent version; no step replaces the content rendered in a scene's div
\* by an older version, in whatever order the scene responses complete.
C21_NeverRegresses ==
    [][\A n \in sceneDivs : n \in sceneDivs' /\ HtmlOf(scenes', n) >= HtmlOf(scenes, n)]_vars

====
